---- MODULE Spec2Model ----
(***************************************************************************)
(* A model of the zap logging core: the Logger facade (src/logger.go, and  *)
(* the older draft of it in src/unnamed/part_001), the Facility backends    *)
(* (ioFacility, both drafts, in src/unnamed/part_000; spyFacility in        *)
(* src/spy/logger.go), the options (src/options.go) and the sinks they      *)
(* write to.  Every logging call is a sequence of steps of the calling      *)
(* goroutine; goroutines interleave between steps.                          *)
(***************************************************************************)
EXTENDS Integers, Sequences, FiniteSets, TLC

(***************************************************************************)
(* Bounds of the model.                                                     *)
(***************************************************************************)
MaxProcs == 2      \* concurrent callers
MaxCalls == 1      \* logging calls each caller issues
MaxHooks == 2      \* hooks registered on a Logger
MaxLoggers == 3    \* Loggers alive: the root and the children With derives
MaxFields == 1     \* fields given to one With or logging call
MaxChain == 5      \* Loggers alive where only derivations are explored
MaxChainFields == 2  \* fields given to one With there

(***************************************************************************)
(* Severities, in their order.                                              *)
(***************************************************************************)
DebugLevel == 1
InfoLevel == 2
WarnLevel == 3
ErrorLevel == 4
DPanicLevel == 5
PanicLevel == 6
FatalLevel == 7
Levels == DebugLevel..FatalLevel

\* Level.Enabled: a fixed threshold enables the severities at or above it.
Enabled(threshold, lvl) == lvl >= threshold

Procs == 1..MaxProcs
Msgs == {"m1"}
HookedMsg == "hooked"

\* The two drafts of the Logger/Facility pair the repository holds.
DraftNew == "logger.go"
DraftOld == "part_001"

\* Ways a primary sink gets attached to a Logger.
AttachWriterFacility == "WriterFacility"
AttachNilOut == "newIOFacility(nil)"
AttachOutput == "Output"
AttachSpy == "spy.New"
AttachOther == "other"
Attaches == {AttachWriterFacility, AttachNilOut, AttachOutput, AttachSpy, AttachOther}

\* Sinks: the primary output and the error output.
OutSink == 1
ErrSink == 2

(***************************************************************************)
(* Fields are opaque to the core.  A field is named by the call that gave   *)
(* it and its position in that call's arguments, so that every field given  *)
(* is distinguishable from every other.                                     *)
(***************************************************************************)
FieldsOf(tag, n) == [i \in 1..n |-> <<tag, i>>]
NoField == <<0, 0>>
\* The tag of the fields of the logging call caller p issues with k calls to
\* go (With's fields are tagged with the index of the Logger they derive).
CallTag(p, k) == 0 - (p * 10 + k)

RECURSIVE SeqCount(_, _)
SeqCount(s, x) ==
    IF s = <<>> THEN 0
    ELSE (IF Head(s) = x THEN 1 ELSE 0) + SeqCount(Tail(s), x)

VARIABLES
    draft,      \* which draft of the Logger is built
    attach,     \* how the primary sink was attached
    loggers,    \* the Loggers: loggers[1] is the root, the rest are With's children
    facs,       \* the Facilities, loggers[l].fac indexes them
    arrays,     \* backing arrays of the spyFacility context slices
    sinks,      \* the sinks: lock, goroutines inside the underlying sink, what was written
    pc,         \* each caller's position
    cur,        \* each caller's call frame
    todo,       \* logging calls each caller has still to issue
    trace,      \* what each caller's current call has done, in order
    exited,     \* whether _exit was invoked (the status, 0 when not)
    derived,    \* history: for each Logger, the With call that derived it
    checked     \* per caller, its last Check call and what it returned

vars == <<draft, attach, loggers, facs, arrays, sinks, pc, cur, todo, trace, exited,
          derived, checked>>

NoRec == [Level |-> 0, Msg |-> "", Fields |-> <<>>, cause |-> ""]
NoEntry == [Level |-> 0, Message |-> "", fac |-> 0]
NoCheck == [log |-> 0, lvl |-> 0, msg |-> "", ret |-> NoEntry]
NoCall == [log |-> 0, lvl |-> 0, msg |-> "", fields |-> <<>>,
           ent |-> [Level |-> 0, Message |-> "", fac |-> 0],
           entry |-> [Level |-> 0, Message |-> "", fac |-> 0],
           i |-> 0, ret |-> "", rec |-> NoRec, snap |-> <<>>]

\* One thing a call did: a hook run (n: its index), a record written (n: the
\* severity written, msg: the message written), a sync, a panic (msg: its
\* value), an exit (n: the status), an internal error reported.
Ev(ev, n, msg) == [ev |-> ev, n |-> n, msg |-> msg]

(***************************************************************************)
(* Construction.                                                            *)
(***************************************************************************)

\* newLockedWriteSyncer: the sink behind a mutex.
newLockedWriteSyncer == [kind |-> "locked", holder |-> 0, busy |-> {}, log |-> <<>>]

\* AddSync: the writer with a Sync method added; no mutex.
AddSync == [kind |-> "raw", holder |-> 0, busy |-> {}, log |-> <<>>]

\* spy.Sink: a mutex and the logs it collected.
SpySink == [kind |-> "spy", holder |-> 0, busy |-> {}, log |-> <<>>]

NilSlice == [arr |-> 0, len |-> 0, cap |-> 0]

\* newIOFacility (both drafts): a nil out becomes a locked os.Stdout.
newIOFacility(kind) == [kind |-> kind, enc |-> <<>>, ctx |-> NilSlice, out |-> OutSink]

\* The primary sink each way of attaching yields.
PrimarySink(a) ==
    CASE a = AttachWriterFacility -> AddSync
      [] a = AttachNilOut -> newLockedWriteSyncer
      [] a = AttachOutput -> newLockedWriteSyncer
      [] a = AttachSpy -> SpySink
      [] OTHER -> AddSync

\* The Facility each way of attaching yields.
RootFacility(d, a) ==
    CASE a = AttachSpy -> [kind |-> "spy", enc |-> <<>>, ctx |-> NilSlice, out |-> OutSink]
      [] a = AttachOther -> [kind |-> "other", enc |-> <<>>, ctx |-> NilSlice, out |-> OutSink]
      [] OTHER -> newIOFacility(IF d = DraftNew THEN "io" ELSE "ioOld")

\* New: the Logger with its defaults, then the options applied.
New(d, a, threshold, dev, nhooks) ==
    [LevelEnabler |-> threshold, Facility |-> 1, Development |-> dev,
     Hooks |-> nhooks, ErrorOutput |-> ErrSink]

\* The old draft has only its own ioFacility, built by newIOFacility.
AttachesOf(d) ==
    IF d = DraftNew THEN Attaches ELSE {AttachNilOut, AttachOutput}

InitWith(drafts, attaches, thresholds, devs, hookCounts, calls) ==
    \E d \in drafts, t \in thresholds, dv \in devs, h \in hookCounts :
      \E a \in attaches \cap AttachesOf(d) :
        /\ draft = d
        /\ attach = a
        /\ loggers = <<New(d, a, t, dv, h)>>
        /\ facs = <<RootFacility(d, a)>>
        /\ arrays = <<>>
        /\ sinks = [s \in {OutSink, ErrSink} |->
                      IF s = OutSink THEN PrimarySink(a) ELSE newLockedWriteSyncer]
        /\ pc = [p \in Procs |-> "idle"]
        /\ cur = [p \in Procs |-> NoCall]
        /\ todo = calls
        /\ trace = [p \in Procs |-> <<>>]
        /\ exited = 0
        /\ derived = <<[parent |-> 0, n |-> 0]>>
        /\ checked = [p \in Procs |-> NoCheck]

\* The callers' workloads: one call by one caller; MaxCalls calls by each.
OneCall == [p \in Procs |-> IF p = 1 THEN 1 ELSE 0]
AllCall == [p \in Procs |-> MaxCalls]

\* One logging call, on every Logger configuration.
Init == InitWith({DraftNew, DraftOld}, {AttachNilOut, AttachSpy, AttachOther},
                 Levels, BOOLEAN, 0..MaxHooks, OneCall)

(***************************************************************************)
(* Sinks.  A write or a sync of a locked sink holds the sink's mutex from   *)
(* its first step to its last; a raw sink has none.  A write puts the       *)
(* record's bytes in the underlying sink in two parts.                      *)
(***************************************************************************)
CanEnter(s) == sinks[s].kind = "raw" \/ sinks[s].holder = 0

Chunk(op, half, p, rec) == [op |-> op, half |-> half, by |-> p, rec |-> rec]

\* lockedWriteSyncer.Write / writerWrapper.Write, entered: the first bytes.
SinkWriteBegin(s, p, rec) ==
    [sinks EXCEPT ![s].holder = IF sinks[s].kind = "raw" THEN 0 ELSE p,
                  ![s].busy = @ \cup {p},
                  ![s].log = Append(@, Chunk("write", 1, p, rec))]

\* ... and left: the last bytes, unless the write failed.
SinkWriteEnd(s, p, rec, ok) ==
    [sinks EXCEPT ![s].holder = 0,
                  ![s].busy = @ \ {p},
                  ![s].log = IF ok THEN Append(@, Chunk("write", 2, p, rec)) ELSE @]

\* lockedWriteSyncer.Sync, entered and left.
SinkSyncBegin(s, p) ==
    [sinks EXCEPT ![s].holder = IF sinks[s].kind = "raw" THEN 0 ELSE p,
                  ![s].busy = @ \cup {p}]

SinkSyncEnd(s, p) ==
    [sinks EXCEPT ![s].holder = 0,
                  ![s].busy = @ \ {p},
                  ![s].log = Append(@, Chunk("sync", 0, p, NoRec))]

\* Sink.WriteLog, entered: s.Lock(), and append reads s.logs.
SpyLock(s, p) == [sinks EXCEPT ![s].holder = p, ![s].busy = @ \cup {p}]

\* A WriteLog that returns without s.Unlock().
SpyAppendNoUnlock(s, p, snap, rec) ==
    [sinks EXCEPT ![s].busy = @ \ {p},
                  ![s].log = Append(snap, Chunk("write", 0, p, rec))]

\* Sink.WriteLog, left: append stores the longer slice, s.Unlock().
SpyAppend(s, p, snap, rec) ==
    [sinks EXCEPT ![s].holder = 0,
                  ![s].busy = @ \ {p},
                  ![s].log = Append(snap, Chunk("write", 0, p, rec))]

(***************************************************************************)
(* The Facility interface.                                                  *)
(***************************************************************************)

\* ioFacility.Enabled and spyFacility.Enabled answer true; another
\* implementation of the interface may answer false.
FacilityEnabled(f) == f.kind # "other"

\* Go's append on a context slice: in place when the capacity allows, else
\* into a new backing array of (at least) twice the capacity.
GrowCap(cap, need) == IF need > 2 * cap THEN need ELSE 2 * cap

SliceAppend(sl, fs, arrs) ==
    LET k == Len(fs)
        need == sl.len + k
    IN  IF k = 0 THEN [slice |-> sl, arrays |-> arrs]
        ELSE IF need <= sl.cap
        THEN [slice |-> [sl EXCEPT !.len = need],
              arrays |-> [arrs EXCEPT ![sl.arr] =
                            [j \in 1..sl.cap |->
                               IF j > sl.len /\ j <= need THEN fs[j - sl.len]
                               ELSE @[j]]]]
        ELSE LET c == GrowCap(sl.cap, need)
                 old == IF sl.arr = 0 THEN <<>> ELSE arrs[sl.arr]
             IN  [slice |-> [arr |-> Len(arrs) + 1, len |-> need, cap |-> c],
                  arrays |-> Append(arrs,
                            [j \in 1..c |->
                               IF j <= sl.len THEN old[j]
                               ELSE IF j <= need THEN fs[j - sl.len]
                               ELSE NoField])]

\* The fields a slice holds: the first len elements of its backing array.
SliceElems(sl, arrs) == [j \in 1..sl.len |-> arrs[sl.arr][j]]

\* The context a Facility puts in front of a call's fields.
Context(f, arrs) == IF f.kind = "spy" THEN SliceElems(f.ctx, arrs) ELSE f.enc

\* ioFacility.With: the encoder cloned, the fields added to the clone.
ioFacilityWith(f, fs) == [f EXCEPT !.enc = @ \o fs]

\* spyFacility.With: context: append(sf.context, fields...), the same sink.
spyFacilityWith(f, fs, arrs) == [f EXCEPT !.ctx = SliceAppend(f.ctx, fs, arrs).slice]

\* A With whose ioFacility adds the fields to the parent's own encoder and
\* hands that encoder to the child.
WithNoClone(p, l, n) ==
    /\ exited = 0
    /\ draft = DraftNew
    /\ pc[p] = "idle"
    /\ l \in 1..Len(loggers)
    /\ Len(loggers) < MaxLoggers
    /\ LET fs == FieldsOf(Len(loggers) + 1, n)
           f == facs[loggers[l].Facility]
       IN  /\ facs' = Append([facs EXCEPT ![loggers[l].Facility].enc = @ \o fs],
                              [f EXCEPT !.enc = @ \o fs])
           /\ arrays' = arrays
           /\ loggers' = Append(loggers, [loggers[l] EXCEPT !.Facility = Len(facs) + 1])
    /\ derived' = Append(derived, [parent |-> l, n |-> n])
    /\ UNCHANGED <<checked, draft, attach, sinks, pc, cur, todo, trace, exited>>

(***************************************************************************)
(* Logger.With (logger.go): a new Logger around Facility.With(fields...).   *)
(***************************************************************************)
WithBounded(p, l, n, max) ==
    /\ exited = 0
    /\ draft = DraftNew
    /\ pc[p] = "idle"
    /\ l \in 1..Len(loggers)
    /\ Len(loggers) < max
    /\ LET fs == FieldsOf(Len(loggers) + 1, n)
           f == facs[loggers[l].Facility]
       IN  /\ facs' = Append(facs,
                        IF f.kind = "spy" THEN spyFacilityWith(f, fs, arrays)
                        ELSE ioFacilityWith(f, fs))
           /\ arrays' = IF f.kind = "spy" THEN SliceAppend(f.ctx, fs, arrays).arrays
                        ELSE arrays
           /\ loggers' = Append(loggers,
                           [LevelEnabler |-> loggers[l].LevelEnabler,
                            Facility |-> Len(facs) + 1,
                            Development |-> loggers[l].Development,
                            Hooks |-> loggers[l].Hooks,
                            ErrorOutput |-> loggers[l].ErrorOutput])
    /\ derived' = Append(derived, [parent |-> l, n |-> n])
    /\ UNCHANGED <<checked, draft, attach, sinks, pc, cur, todo, trace, exited>>

With(p, l, n) == WithBounded(p, l, n, MaxLoggers)

(***************************************************************************)
(* Logger.With (part_001): the Logger cloned, the fields added to the       *)
(* clone's encoder, twice.                                                  *)
(***************************************************************************)
WithOld(p, l, n) ==
    /\ exited = 0
    /\ draft = DraftOld
    /\ pc[p] = "idle"
    /\ l \in 1..Len(loggers)
    /\ Len(loggers) < MaxLoggers
    /\ LET fs == FieldsOf(Len(loggers) + 1, n)
           f == facs[loggers[l].Facility]
       IN  /\ facs' = Append(facs, [f EXCEPT !.enc = (@ \o fs) \o fs])
           /\ loggers' = Append(loggers, [loggers[l] EXCEPT !.Facility = Len(facs) + 1])
    /\ derived' = Append(derived, [parent |-> l, n |-> n])
    /\ UNCHANGED <<checked, draft, attach, arrays, sinks, pc, cur, todo, trace, exited>>

(***************************************************************************)
(* Logger.Debug .. Logger.Fatal, entered: the Entry is built.               *)
(***************************************************************************)
Call(p, l, lvl, msg, n) ==
    /\ exited = 0
    /\ pc[p] = "idle"
    /\ todo[p] > 0
    /\ l \in 1..Len(loggers)
    /\ todo' = [todo EXCEPT ![p] = @ - 1]
    /\ cur' = [cur EXCEPT ![p] =
                 [NoCall EXCEPT !.log = l, !.lvl = lvl, !.msg = msg,
                                !.fields = FieldsOf(CallTag(p, todo[p]), n),
                                !.ent = [Level |-> lvl, Message |-> msg, fac |-> 0],
                                !.entry = [Level |-> lvl, Message |-> msg, fac |-> 0]]]
    /\ trace' = [trace EXCEPT ![p] = <<>>]
    /\ pc' = [pc EXCEPT ![p] = "Log"]
    /\ UNCHANGED <<checked, draft, attach, derived, loggers, facs, arrays, sinks, exited>>

\* A loop over the hooks that stops after the first one.
AfterHookFirstOnly(p, i) == "facLog"

\* Where a call goes once hook i has run: the next hook, or Facility.Log.
AfterHook(p, i) ==
    IF i < loggers[cur[p].log].Hooks THEN "hook" ELSE "facLog"

\* A Logger.Log that does not ask the Facility whether it is eligible.
LogNoFacilityGate(p) ==
    /\ exited = 0
    /\ draft = DraftNew
    /\ pc[p] = "Log"
    /\ LET lg == loggers[cur[p].log]
           pass == Enabled(lg.LevelEnabler, cur[p].ent.Level)
       IN  /\ cur' = [cur EXCEPT ![p].ent.fac = IF pass THEN lg.Facility ELSE @,
                                 ![p].entry.fac = IF pass THEN lg.Facility ELSE @,
                                 ![p].i = IF pass THEN 1 ELSE @]
           /\ pc' = [pc EXCEPT ![p] = IF pass THEN AfterHook(p, 0) ELSE "tail"]
    /\ UNCHANGED <<checked, draft, attach, derived, loggers, facs, arrays, sinks, todo, trace, exited>>

(***************************************************************************)
(* Logger.Log (logger.go): the threshold gate, the Facility gate, then the  *)
(* hooks.                                                                   *)
(***************************************************************************)
Log(p) ==
    /\ exited = 0
    /\ draft = DraftNew
    /\ pc[p] = "Log"
    /\ LET lg == loggers[cur[p].log]
           pass == /\ Enabled(lg.LevelEnabler, cur[p].ent.Level)
                   /\ FacilityEnabled(facs[lg.Facility])
       IN  /\ cur' = [cur EXCEPT ![p].ent.fac = IF pass THEN lg.Facility ELSE @,
                                 ![p].entry.fac = IF pass THEN lg.Facility ELSE @,
                                 ![p].i = IF pass THEN 1 ELSE @]
           /\ pc' = [pc EXCEPT ![p] = IF pass THEN AfterHook(p, 0) ELSE "tail"]
    /\ UNCHANGED <<checked, draft, attach, derived, loggers, facs, arrays, sinks, todo, trace, exited>>

(***************************************************************************)
(* The old draft: Logger.Debug .. Fatal (part_001) call Facility.Log, and   *)
(* ioFacility.Log (part_000, first draft) gates on the Logger's threshold,  *)
(* then has Logger.Encode run the hooks.                                    *)
(***************************************************************************)
LogOld(p) ==
    /\ exited = 0
    /\ draft = DraftOld
    /\ pc[p] = "Log"
    /\ LET lg == loggers[cur[p].log]
           pass == Enabled(lg.LevelEnabler, cur[p].ent.Level)
       IN  /\ cur' = [cur EXCEPT ![p].ent.fac = IF pass THEN lg.Facility ELSE @,
                                 ![p].entry.fac = IF pass THEN lg.Facility ELSE @,
                                 ![p].i = IF pass THEN 1 ELSE @]
           /\ pc' = [pc EXCEPT ![p] = IF pass THEN AfterHook(p, 0) ELSE "tail"]
    /\ UNCHANGED <<checked, draft, attach, derived, loggers, facs, arrays, sinks, todo, trace, exited>>

(***************************************************************************)
(* A hook is any function from a pointer to the Entry to an error: it may   *)
(* set the entry's severity or message and may return an error.             *)
(***************************************************************************)
HookLevels == {InfoLevel, FatalLevel}

\* What one run of a hook may do.
HookOutcomes ==
    {[err |-> FALSE, lv |-> 0, chmsg |-> FALSE],
     [err |-> TRUE, lv |-> 0, chmsg |-> FALSE],
     [err |-> FALSE, lv |-> InfoLevel, chmsg |-> FALSE],
     [err |-> FALSE, lv |-> FatalLevel, chmsg |-> FALSE],
     [err |-> FALSE, lv |-> 0, chmsg |-> TRUE],
     [err |-> TRUE, lv |-> InfoLevel, chmsg |-> TRUE]}

HookApply(ent, lv, chmsg) ==
    [ent EXCEPT !.Level = IF lv = 0 THEN @ ELSE lv,
                !.Message = IF chmsg THEN HookedMsg ELSE @]

\* What the caller of the hooks keeps of the entry a hook left (cur[p].entry
\* is the entry the hooks get a pointer to): Logger.Log hands the entry itself
\* on; Logger.Encode returns its message only.
HookResult(d, ent, hooked) ==
    IF d = DraftNew THEN hooked ELSE [ent EXCEPT !.Message = hooked.Message]

\* A hook loop that drops the hook's error.
RunHookDropError(p, err, lv, chmsg) ==
    /\ exited = 0
    /\ pc[p] = "hook"
    /\ LET i == cur[p].i
       IN  /\ cur' = [cur EXCEPT
                        ![p].entry = HookApply(@, lv, chmsg),
                        ![p].ent = HookResult(draft, @, HookApply(cur[p].entry, lv, chmsg)),
                        ![p].i = @ + 1]
           /\ trace' = [trace EXCEPT
                          ![p] = Append(@, Ev("hook", i, IF err THEN "failed" ELSE ""))]
           /\ pc' = [pc EXCEPT ![p] = AfterHook(p, i)]
    /\ UNCHANGED <<checked, draft, attach, derived, loggers, facs, arrays, sinks, todo, exited>>

\* The loop over log.Hooks (Logger.Log, Logger.Encode): one hook run; an
\* error goes to InternalError("hook", err), and the loop goes on.
RunHook(p, err, lv, chmsg) ==
    /\ exited = 0
    /\ pc[p] = "hook"
    /\ LET i == cur[p].i
       IN  /\ cur' = [cur EXCEPT
                        ![p].entry = HookApply(@, lv, chmsg),
                        ![p].ent = HookResult(draft, @, HookApply(cur[p].entry, lv, chmsg)),
                        ![p].i = IF err THEN @ ELSE @ + 1,
                        ![p].ret = IF err THEN "hook" ELSE @]
           /\ trace' = [trace EXCEPT
                          ![p] = Append(@, Ev("hook", i, IF err THEN "failed" ELSE ""))]
           /\ pc' = [pc EXCEPT ![p] = IF err THEN "ieWrite" ELSE AfterHook(p, i)]
    /\ UNCHANGED <<checked, draft, attach, derived, loggers, facs, arrays, sinks, todo, exited>>

(***************************************************************************)
(* Logger.InternalError: fmt.Fprintf(log.ErrorOutput, ...), then            *)
(* log.ErrorOutput.Sync().                                                  *)
(***************************************************************************)
ErrRec(cause) == [NoRec EXCEPT !.cause = cause]

InternalErrorWrite(p) ==
    /\ exited = 0
    /\ pc[p] = "ieWrite"
    /\ LET s == loggers[cur[p].log].ErrorOutput
       IN  /\ CanEnter(s)
           /\ sinks' = SinkWriteBegin(s, p, ErrRec(cur[p].ret))
    /\ pc' = [pc EXCEPT ![p] = "ieWriting"]
    /\ UNCHANGED <<checked, draft, attach, derived, loggers, facs, arrays, cur, todo, trace, exited>>

InternalErrorWritten(p) ==
    /\ exited = 0
    /\ pc[p] = "ieWriting"
    /\ sinks' = SinkWriteEnd(loggers[cur[p].log].ErrorOutput, p, ErrRec(cur[p].ret), TRUE)
    /\ trace' = [trace EXCEPT ![p] = Append(@, Ev("report", 0, cur[p].ret))]
    /\ pc' = [pc EXCEPT ![p] = "ieSync"]
    /\ UNCHANGED <<checked, draft, attach, derived, loggers, facs, arrays, cur, todo, exited>>

InternalErrorSync(p) ==
    /\ exited = 0
    /\ pc[p] = "ieSync"
    /\ LET s == loggers[cur[p].log].ErrorOutput
       IN  /\ CanEnter(s)
           /\ sinks' = SinkSyncBegin(s, p)
    /\ pc' = [pc EXCEPT ![p] = "ieSyncing"]
    /\ UNCHANGED <<checked, draft, attach, derived, loggers, facs, arrays, cur, todo, trace, exited>>

\* A sync for Error records too.
NeedSyncFromError(ent) == ent.Level >= ErrorLevel

\* Whether ioFacility.Log syncs after the entry it wrote: ent.Level > ErrorLevel.
NeedSync(ent) == ent.Level > ErrorLevel

\* Where ioFacility.Log goes after WriteEntry (and the report of its error).
AfterWrite(p) == IF NeedSync(cur[p].ent) THEN "sync" ELSE "tail"

InternalErrorSynced(p) ==
    /\ exited = 0
    /\ pc[p] = "ieSyncing"
    /\ sinks' = SinkSyncEnd(loggers[cur[p].log].ErrorOutput, p)
    /\ trace' = [trace EXCEPT ![p] = Append(@, Ev("errsync", 0, ""))]
    /\ cur' = [cur EXCEPT ![p].i = IF cur[p].ret = "hook" THEN @ + 1 ELSE @]
    /\ pc' = [pc EXCEPT ![p] = IF cur[p].ret = "hook" THEN AfterHook(p, cur[p].i)
                               ELSE AfterWrite(p)]
    /\ UNCHANGED <<checked, draft, attach, derived, loggers, facs, arrays, todo, exited>>

(***************************************************************************)
(* Facility.Log.                                                            *)
(***************************************************************************)

\* The record a Facility writes for an entry: its context, then the call's
\* fields (ioFacility: the cloned encoder with the fields added; spyFacility:
\* the slice `all`).
FacilityRecord(f, ent, fields, arrs) ==
    [Level |-> ent.Level, Msg |-> ent.Message,
     Fields |-> Context(f, arrs) \o fields, cause |-> ""]

\* ioFacility.Log / spyFacility.Log, entered: the record is put together.
FacilityLog(p) ==
    /\ exited = 0
    /\ pc[p] = "facLog"
    /\ cur' = [cur EXCEPT ![p].rec =
                 FacilityRecord(facs[cur[p].ent.fac], cur[p].ent, cur[p].fields, arrays)]
    /\ trace' = [trace EXCEPT ![p] =
                   Append(@, Ev("deliver", cur[p].ent.Level, cur[p].ent.Message))]
    /\ pc' = [pc EXCEPT ![p] = "write"]
    /\ UNCHANGED <<checked, draft, attach, derived, loggers, facs, arrays, sinks, todo, exited>>

\* enc.WriteEntry(iof.Output, ...) / sf.sink.WriteLog(...), entered.
WriteBegin(p) ==
    /\ exited = 0
    /\ pc[p] = "write"
    /\ LET f == facs[cur[p].ent.fac]
       IN  /\ CanEnter(f.out)
           /\ sinks' = IF f.kind = "spy" THEN SpyLock(f.out, p)
                       ELSE SinkWriteBegin(f.out, p, cur[p].rec)
           /\ cur' = [cur EXCEPT ![p].snap = IF f.kind = "spy" THEN sinks[f.out].log ELSE @]
    /\ pc' = [pc EXCEPT ![p] = "writing"]
    /\ UNCHANGED <<checked, draft, attach, derived, loggers, facs, arrays, todo, trace, exited>>

\* ... and returned; a byte sink's write may fail.  The new ioFacility.Log
\* drops the error, the old one reports it; enc.Free(); then the sync.
WriteEnd(p, ok) ==
    /\ exited = 0
    /\ pc[p] = "writing"
    /\ LET f == facs[cur[p].ent.fac]
       IN  /\ f.kind = "spy" => ok
           /\ sinks' = IF f.kind = "spy" THEN SpyAppend(f.out, p, cur[p].snap, cur[p].rec)
                       ELSE SinkWriteEnd(f.out, p, cur[p].rec, ok)
           /\ trace' = [trace EXCEPT ![p] =
                          Append(@, Ev(IF ok THEN "write" ELSE "writeFailed",
                                       cur[p].rec.Level, cur[p].rec.Msg))]
           /\ cur' = [cur EXCEPT ![p].snap = <<>>,
                                 ![p].ret = IF ~ok /\ f.kind = "ioOld" THEN "encoder" ELSE @]
           /\ pc' = [pc EXCEPT ![p] =
                       IF f.kind = "spy" THEN "tail"
                       ELSE IF ~ok /\ f.kind = "ioOld" THEN "ieWrite"
                       ELSE AfterWrite(p)]
    /\ UNCHANGED <<checked, draft, attach, derived, loggers, facs, arrays, todo, exited>>

\* iof.Output.Sync(), entered and returned.
SyncBegin(p) ==
    /\ exited = 0
    /\ pc[p] = "sync"
    /\ LET s == facs[cur[p].ent.fac].out
       IN  /\ CanEnter(s)
           /\ sinks' = SinkSyncBegin(s, p)
    /\ pc' = [pc EXCEPT ![p] = "syncing"]
    /\ UNCHANGED <<checked, draft, attach, derived, loggers, facs, arrays, cur, todo, trace, exited>>

SyncEnd(p) ==
    /\ exited = 0
    /\ pc[p] = "syncing"
    /\ sinks' = SinkSyncEnd(facs[cur[p].ent.fac].out, p)
    /\ trace' = [trace EXCEPT ![p] = Append(@, Ev("sync", 0, ""))]
    /\ pc' = [pc EXCEPT ![p] = "tail"]
    /\ UNCHANGED <<checked, draft, attach, derived, loggers, facs, arrays, cur, todo, exited>>

(***************************************************************************)
(* Logger.Debug .. Logger.Fatal, after log.log returned: DPanic panics in   *)
(* development mode, Panic panics, Fatal calls _exit(1), the rest return.   *)
(***************************************************************************)
\* A DPanic that panics whatever the development flag.
EscalationDPanicAlways(lvl, dev) ==
    CASE lvl = DPanicLevel -> "panic"
      [] lvl = PanicLevel -> "panic"
      [] lvl = FatalLevel -> "exit"
      [] OTHER -> "return"

Escalation(lvl, dev) ==
    CASE lvl = DPanicLevel /\ dev -> "panic"
      [] lvl = PanicLevel -> "panic"
      [] lvl = FatalLevel -> "exit"
      [] OTHER -> "return"

ExitStatus == 1

\* The events named ev of a trace, by position, and their number.
EvIdx(tr, ev) == {i \in 1..Len(tr) : tr[i].ev = ev}
Count(tr, ev) == Cardinality(EvIdx(tr, ev))

\* An escalation that happens only when the record was delivered.
EscalateIfDelivered(p) ==
    /\ exited = 0
    /\ pc[p] = "tail"
    /\ LET e == IF Count(trace[p], "deliver") = 0 THEN "return"
                ELSE Escalation(cur[p].lvl, loggers[cur[p].log].Development)
       IN  /\ pc' = [pc EXCEPT ![p] = CASE e = "panic" -> "panicked"
                                        [] e = "exit" -> "exited"
                                        [] OTHER -> "idle"]
           /\ trace' = [trace EXCEPT ![p] =
                          CASE e = "panic" -> Append(@, Ev("panic", 0, cur[p].msg))
                            [] e = "exit" -> Append(@, Ev("exit", ExitStatus, ""))
                            [] OTHER -> Append(@, Ev("return", 0, ""))]
           /\ exited' = IF e = "exit" THEN ExitStatus ELSE exited
    /\ UNCHANGED <<checked, draft, attach, derived, loggers, facs, arrays, sinks, cur, todo>>

Escalate(p) ==
    /\ exited = 0
    /\ pc[p] = "tail"
    /\ LET e == Escalation(cur[p].lvl, loggers[cur[p].log].Development)
       IN  /\ pc' = [pc EXCEPT ![p] = CASE e = "panic" -> "panicked"
                                        [] e = "exit" -> "exited"
                                        [] OTHER -> "idle"]
           /\ trace' = [trace EXCEPT ![p] =
                          CASE e = "panic" -> Append(@, Ev("panic", 0, cur[p].msg))
                            [] e = "exit" -> Append(@, Ev("exit", ExitStatus, ""))
                            [] OTHER -> Append(@, Ev("return", 0, ""))]
           /\ exited' = IF e = "exit" THEN ExitStatus ELSE exited
    /\ UNCHANGED <<checked, draft, attach, derived, loggers, facs, arrays, sinks, cur, todo>>

(***************************************************************************)
(* Logger.Check (both drafts): Panic and Fatal pass; DPanic passes in       *)
(* development mode; everything else passes when the threshold and the      *)
(* Facility enable it.  What passes gets an Entry bound to log.Facility;    *)
(* what does not gets nil.                                                  *)
(***************************************************************************)
\* A Check that gates every severity, as Logger.Log does.
CheckGatesAll(lg, f, lvl, msg) ==
    IF Enabled(lg.LevelEnabler, lvl) /\ FacilityEnabled(f)
    THEN [Level |-> lvl, Message |-> msg, fac |-> lg.Facility]
    ELSE NoEntry

Check(lg, f, lvl, msg) ==
    LET gated == ~ (\/ lvl \in {PanicLevel, FatalLevel}
                    \/ lvl = DPanicLevel /\ lg.Development)
    IN  IF gated /\ ~ (Enabled(lg.LevelEnabler, lvl) /\ FacilityEnabled(f))
        THEN NoEntry
        ELSE [Level |-> lvl, Message |-> msg, fac |-> lg.Facility]

\* A caller calls log.Check(lvl, msg) and keeps what it returned.
CheckCall(p, l, lvl, msg) ==
    /\ exited = 0
    /\ pc[p] = "idle"
    /\ l \in 1..Len(loggers)
    /\ checked' = [checked EXCEPT ![p] =
                     [log |-> l, lvl |-> lvl, msg |-> msg,
                      ret |-> Check(loggers[l], facs[loggers[l].Facility], lvl, msg)]]
    /\ UNCHANGED <<draft, attach, derived, loggers, facs, arrays, sinks, pc, cur, todo,
                   trace, exited>>

(***************************************************************************)
(* The steps of one caller, and the specifications.                         *)
(***************************************************************************)
CallStepOn(p, lvls, ns) ==
    \/ \E l \in 1..MaxLoggers, lvl \in lvls, msg \in Msgs, n \in ns :
         Call(p, l, lvl, msg, n)
    \/ Log(p)
    \/ LogOld(p)
    \/ \E h \in HookOutcomes : RunHook(p, h.err, h.lv, h.chmsg)
    \/ InternalErrorWrite(p)
    \/ InternalErrorWritten(p)
    \/ InternalErrorSync(p)
    \/ InternalErrorSynced(p)
    \/ FacilityLog(p)
    \/ WriteBegin(p)
    \/ \E ok \in BOOLEAN : WriteEnd(p, ok)
    \/ SyncBegin(p)
    \/ SyncEnd(p)
    \/ Escalate(p)

CallStep(p) == CallStepOn(p, Levels, {0, MaxFields})

WithStep(p) ==
    \/ \E l \in 1..MaxLoggers, n \in 0..MaxFields : With(p, l, n)
    \/ \E l \in 1..MaxLoggers, n \in 0..MaxFields : WithOld(p, l, n)

Next == \E p \in Procs : CallStep(p)

Spec == Init /\ [][Next]_vars

\* Derivations from spy Loggers, deep enough for append to find spare
\* capacity in a parent's slice, with one Info call through any of them; the
\* Logger has no hook and spy.Sink's WriteLog cannot fail.
InitChain == InitWith({DraftNew}, {AttachSpy}, {InfoLevel}, {FALSE}, {0}, OneCall)

ChainStep(p) ==
    \/ \E l \in 1..MaxChain, n \in 1..MaxChainFields : WithBounded(p, l, n, MaxChain)
    \/ \E l \in 1..MaxChain, msg \in Msgs : Call(p, l, InfoLevel, msg, 0)
    \/ Log(p)
    \/ FacilityLog(p)
    \/ WriteBegin(p)
    \/ WriteEnd(p, TRUE)
    \/ Escalate(p)

NextChain == \E p \in Procs : ChainStep(p)

SpecChain == InitChain /\ [][NextChain]_vars

\* Progress: every caller issues its calls, at a severity that returns or one
\* that panics, with a hook that may fail; the error sink is the Logger's own
\* or the very sink the Facility writes to.  Each caller that can take a step
\* eventually takes one (the Go scheduler runs every runnable goroutine).
InitSharedSink ==
    /\ draft = DraftNew
    /\ attach = AttachNilOut
    /\ loggers = <<[New(DraftNew, AttachNilOut, InfoLevel, FALSE, 1)
                      EXCEPT !.ErrorOutput = OutSink]>>
    /\ facs = <<RootFacility(DraftNew, AttachNilOut)>>
    /\ arrays = <<>>
    /\ sinks = [s \in {OutSink, ErrSink} |-> newLockedWriteSyncer]
    /\ pc = [p \in Procs |-> "idle"]
    /\ cur = [p \in Procs |-> NoCall]
    /\ todo = AllCall
    /\ trace = [p \in Procs |-> <<>>]
    /\ exited = 0
    /\ derived = <<[parent |-> 0, n |-> 0]>>
    /\ checked = [p \in Procs |-> NoCheck]

InitLive ==
    \/ InitWith({DraftNew, DraftOld}, {AttachNilOut, AttachSpy},
                {InfoLevel}, {FALSE}, {1}, AllCall)
    \/ InitSharedSink

LiveStep(p) ==
    \/ \E l \in 1..MaxLoggers, lvl \in {InfoLevel, PanicLevel}, msg \in Msgs :
         Call(p, l, lvl, msg, 0)
    \/ Log(p)
    \/ LogOld(p)
    \/ \E err \in BOOLEAN : RunHook(p, err, 0, FALSE)
    \/ InternalErrorWrite(p)
    \/ InternalErrorWritten(p)
    \/ InternalErrorSync(p)
    \/ InternalErrorSynced(p)
    \/ FacilityLog(p)
    \/ WriteBegin(p)
    \/ \E ok \in BOOLEAN : WriteEnd(p, ok)
    \/ SyncBegin(p)
    \/ SyncEnd(p)
    \/ Escalate(p)

NextLive == \E p \in Procs : LiveStep(p)

SpecLive == InitLive /\ [][NextLive]_vars /\ \A p \in Procs : WF_vars(LiveStep(p))

\* Check (by the last caller) and one logging call on the same Logger, over
\* every threshold, development flag and Facility answer.
InitCheck == InitWith({DraftNew, DraftOld}, {AttachNilOut, AttachSpy, AttachOther},
                      Levels, BOOLEAN, {1}, OneCall)

CheckStep(p) == \E l \in 1..MaxLoggers, lvl \in Levels, msg \in Msgs : CheckCall(p, l, lvl, msg)

NextCheck == (\E p \in Procs : CallStep(p)) \/ CheckStep(MaxProcs)

SpecCheck == InitCheck /\ [][NextCheck]_vars

\* Derivations: Loggers derived by With, and one logging call through any of
\* them, at a severity that is written without a sync or with one.
InitDerive == InitWith({DraftNew, DraftOld}, {AttachNilOut, AttachSpy},
                       {InfoLevel}, {FALSE}, {1}, OneCall)

NextDerive == \E p \in Procs : CallStepOn(p, {InfoLevel, FatalLevel}, {0, MaxFields}) \/ WithStep(p)

SpecDerive == InitDerive /\ [][NextDerive]_vars

\* Concurrency: every caller issues MaxCalls enabled calls that return, on one
\* Logger, for each way of attaching the primary sink.
InitConc == InitWith({DraftNew, DraftOld},
                     {AttachWriterFacility, AttachNilOut, AttachOutput, AttachSpy},
                     {InfoLevel}, {FALSE}, {1}, AllCall)

NextConc == \E p \in Procs : CallStepOn(p, {InfoLevel, DPanicLevel}, {MaxFields})

SpecConc == InitConc /\ [][NextConc]_vars

(***************************************************************************)
(* What the properties speak of.                                            *)
(***************************************************************************)
LoggerOf(p) == loggers[cur[p].log]
FacilityOf(p) == facs[LoggerOf(p).Facility]
IsIO(f) == f.kind \in {"io", "ioOld"}

\* The call of p handed a record to Facility delivery.
Delivered(p) == Count(trace[p], "deliver") > 0

\* log.log has returned to the severity method; the method has ended.
Finished(p) == pc[p] \in {"panicked", "exited"} \/ (pc[p] = "idle" /\ cur[p] # NoCall)
LogDone(p) == pc[p] = "tail" \/ Finished(p)
InCall(p) == cur[p] # NoCall /\ ~Finished(p)

\* The callers that have issued a call.
Called == {p \in Procs : cur[p] # NoCall}

Last(tr) == tr[Len(tr)]

\* Every event named a comes before every event named b.
Before(tr, a, b) == \A i \in EvIdx(tr, a), j \in EvIdx(tr, b) : i < j

(***************************************************************************)
(* C1.  A severity-specific call at severity s on a Logger with fixed       *)
(* threshold t and an eligible Facility delivers a record iff s >= t,       *)
(* except that Panic and Fatal always deliver and DPanic always delivers in *)
(* development mode.                                                        *)
(***************************************************************************)
ShouldDeliver(s, t, dev) ==
    \/ s >= t
    \/ s \in {PanicLevel, FatalLevel}
    \/ s = DPanicLevel /\ dev

C1_DeliversIffGated ==
    \A p \in Called :
      (LogDone(p) /\ FacilityEnabled(FacilityOf(p))) =>
        (Delivered(p) <=>
           ShouldDeliver(cur[p].lvl, LoggerOf(p).LevelEnabler, LoggerOf(p).Development))

(***************************************************************************)
(* C2.  Every Panic call panics with the caller's message and every Fatal   *)
(* call invokes _exit with a non-zero status, exactly once, as the last     *)
(* thing the call does, whatever the threshold, the Facility's answer and   *)
(* the hooks' outcomes; and no step of such a call can fail to be followed  *)
(* by the next one.                                                         *)
(***************************************************************************)
C2_PanicFatalAlwaysEscalate ==
    \A p \in Called :
      /\ (cur[p].lvl = PanicLevel /\ Finished(p)) =>
           /\ pc[p] = "panicked"
           /\ Count(trace[p], "panic") = 1 /\ Count(trace[p], "exit") = 0
           /\ Last(trace[p]) = Ev("panic", 0, cur[p].msg)
      /\ (cur[p].lvl = FatalLevel /\ Finished(p)) =>
           /\ pc[p] = "exited" /\ exited # 0
           /\ Count(trace[p], "exit") = 1 /\ Count(trace[p], "panic") = 0
           /\ Last(trace[p]).ev = "exit" /\ Last(trace[p]).n # 0
      /\ (cur[p].lvl \in {PanicLevel, FatalLevel} /\ InCall(p)) =>
           /\ Count(trace[p], "panic") = 0 /\ Count(trace[p], "exit") = 0
           /\ exited = 0 => ENABLED CallStep(p)

\* A Panic call whose record was suppressed, and which panicked.
C2_Witness ==
    \E p \in Called :
      /\ cur[p].lvl = PanicLevel /\ pc[p] = "panicked"
      /\ ~Delivered(p)

(***************************************************************************)
(* C3.  For DPanic in development mode, Panic and Fatal on an ioFacility,   *)
(* the panic or the exit comes only after the call's record was written and *)
(* the sink synced.                                                         *)
(***************************************************************************)
C3_EscalationAfterWriteAndSync ==
    \A p \in Called :
      (pc[p] \in {"panicked", "exited"} /\ IsIO(FacilityOf(p))
         /\ Count(trace[p], "writeFailed") = 0) =>
        /\ Count(trace[p], "write") = 1
        /\ Count(trace[p], "sync") = 1
        /\ Before(trace[p], "write", "sync")
        /\ Before(trace[p], "sync", "panic")
        /\ Before(trace[p], "sync", "exit")

(***************************************************************************)
(* C4.  Every Fatal call on an ioFacility whose write succeeds performs     *)
(* exactly one sequence: the record written, the sink synced once, _exit    *)
(* invoked once, in that order.                                             *)
(***************************************************************************)
C4_FatalWriteSyncExitOnce ==
    \A p \in Called :
      (cur[p].lvl = FatalLevel /\ pc[p] = "exited" /\ IsIO(FacilityOf(p))
         /\ Count(trace[p], "writeFailed") = 0) =>
        /\ Count(trace[p], "write") = 1
        /\ Count(trace[p], "sync") = 1
        /\ Count(trace[p], "exit") = 1
        /\ Before(trace[p], "write", "sync")
        /\ Before(trace[p], "sync", "exit")

(***************************************************************************)
(* C5.  A DPanic call panics iff the Logger is in development mode; out of  *)
(* development mode it returns, and its record is delivered iff the         *)
(* threshold enables DPanic and the Facility is eligible, which is the gate *)
(* of Debug, Info, Warn and Error.                                          *)
(***************************************************************************)
GatePasses(p) ==
    /\ Enabled(LoggerOf(p).LevelEnabler, cur[p].lvl)
    /\ FacilityEnabled(FacilityOf(p))

C5_DPanicPanicsIffDevelopment ==
    \A p \in Called :
      /\ (cur[p].lvl = DPanicLevel /\ Finished(p)) =>
           /\ pc[p] = "panicked" <=> LoggerOf(p).Development
           /\ Count(trace[p], "panic") = (IF LoggerOf(p).Development THEN 1 ELSE 0)
           /\ ~LoggerOf(p).Development =>
                /\ pc[p] = "idle" /\ exited = 0
                /\ Delivered(p) <=> GatePasses(p)
      /\ (cur[p].lvl \in DebugLevel..ErrorLevel /\ Finished(p)) =>
           /\ pc[p] = "idle"
           /\ Delivered(p) <=> GatePasses(p)

\* A DPanic call out of development mode that was delivered and returned.
C5_Witness ==
    \E p \in Called :
      /\ cur[p].lvl = DPanicLevel /\ ~LoggerOf(p).Development
      /\ pc[p] = "idle" /\ Delivered(p)
      /\ Last(trace[p]).ev = "return"

(***************************************************************************)
(* C10.  For a record that passed the gates, every registered hook runs     *)
(* exactly once, in registration order, before the record is handed to      *)
(* Facility delivery; a hook's error stops neither the later hooks nor the  *)
(* delivery; and the record is delivered exactly once.                      *)
(***************************************************************************)
HooksRun(tr) == [k \in 1..Count(tr, "hook") |->
                   tr[CHOOSE i \in EvIdx(tr, "hook") :
                        Cardinality({j \in EvIdx(tr, "hook") : j <= i}) = k].n]

C10_HooksOnceInOrderThenDelivery ==
    \A p \in Called :
      /\ HooksRun(trace[p]) = [k \in 1..Count(trace[p], "hook") |-> k]
      /\ Count(trace[p], "hook") <= LoggerOf(p).Hooks
      /\ Count(trace[p], "deliver") <= 1
      /\ Before(trace[p], "hook", "deliver")
      /\ Delivered(p) => Count(trace[p], "hook") = LoggerOf(p).Hooks
      /\ (LogDone(p) /\ cur[p].ent.fac # 0) => Delivered(p)

\* A delivered record both of whose hooks ran, the first of them failing.
C10_Witness ==
    \E p \in Called :
      /\ Delivered(p) /\ LoggerOf(p).Hooks = 2
      /\ Count(trace[p], "report") > 0
      /\ \E i \in EvIdx(trace[p], "report") :
           \E j \in EvIdx(trace[p], "hook") : i < j /\ trace[p][j].n = 2

(***************************************************************************)
(* C6.  Deriving a child with With never changes the parent: a With step    *)
(* leaves unchanged what its parent (and each of the parent's ancestors)    *)
(* emits as context, its sink, threshold, hooks, error sink and development *)
(* flag; and no step of a logging call changes any Logger.                  *)
(***************************************************************************)
LoggerView(l) ==
    [LevelEnabler |-> loggers[l].LevelEnabler,
     Development |-> loggers[l].Development,
     Hooks |-> loggers[l].Hooks,
     ErrorOutput |-> loggers[l].ErrorOutput,
     out |-> facs[loggers[l].Facility].out,
     context |-> Context(facs[loggers[l].Facility], arrays)]

RECURSIVE Ancestors(_)
Ancestors(l) ==
    IF derived[l].parent = 0 THEN {}
    ELSE {derived[l].parent} \cup Ancestors(derived[l].parent)

C6_WithLeavesParentUnchanged ==
    [][\A l \in 1..Len(loggers) :
         (\/ Len(loggers') = Len(loggers)
          \/ LET parent == derived'[Len(loggers')].parent
             IN  l \in {parent} \cup Ancestors(parent))
         => LoggerView(l)' = LoggerView(l)]_vars

\* A parent that has a child with a field of its own, through which a record
\* was written.
C6_Witness ==
    \E p \in Called :
      /\ cur[p].log > 1 /\ derived[cur[p].log].n > 0
      /\ Count(trace[p], "write") = 1

(***************************************************************************)
(* C7.  The context of a child derived by With(f1..fk) is the parent's      *)
(* context followed by f1..fk, each once; a record logged through it with   *)
(* fields g1..gm carries that context followed by g1..gm; and the child     *)
(* writes to the parent's sink.                                             *)
(***************************************************************************)
RECURSIVE ExpectedContext(_)
ExpectedContext(l) ==
    IF derived[l].parent = 0 THEN <<>>
    ELSE ExpectedContext(derived[l].parent) \o FieldsOf(l, derived[l].n)

C7_ChildContextIsParentPlusFields ==
    /\ \A l \in 2..Len(loggers) :
         /\ Context(facs[loggers[l].Facility], arrays) = ExpectedContext(l)
         /\ facs[loggers[l].Facility].out = facs[loggers[derived[l].parent].Facility].out
    /\ \A p \in Called :
         pc[p] \in {"write", "writing"} =>
           cur[p].rec.Fields = ExpectedContext(cur[p].log) \o cur[p].fields

(***************************************************************************)
(* C8.  When every one of the N callers has issued its M enabled calls on   *)
(* the one Logger and no write failed, the sink's write sequence holds      *)
(* exactly N*M records, each complete and equal to the record its call      *)
(* issued: none lost, duplicated, truncated or merged with another.         *)
(***************************************************************************)
IsWrite(c) == c.op = "write"
Writes(s) == SelectSeq(sinks[s].log, IsWrite)

\* A write sequence made of whole records: each record's first bytes are
\* directly followed by its own last bytes (a spy.Sink stores whole Logs).
WholeRecords(w) ==
    \/ \A i \in 1..Len(w) : w[i].half = 0
    \/ /\ Len(w) % 2 = 0
       /\ \A i \in 1..Len(w) :
            IF i % 2 = 1
            THEN w[i].half = 1 /\ w[i + 1].half = 2
                 /\ w[i + 1].by = w[i].by /\ w[i + 1].rec = w[i].rec
            ELSE TRUE

RecordStarts(w, p) == {i \in 1..Len(w) : w[i].half \in {0, 1} /\ w[i].by = p}

C8_ConcurrentRecordsCompleteAndSerial ==
    (\A p \in Procs :
       /\ todo[p] = 0 /\ pc[p] = "idle" /\ Delivered(p)
       /\ Count(trace[p], "writeFailed") = 0) =>
      LET w == Writes(OutSink)
      IN  /\ WholeRecords(w)
          /\ Cardinality({i \in 1..Len(w) : w[i].half \in {0, 1}}) = MaxProcs * MaxCalls
          /\ \A p \in Procs :
               /\ Cardinality(RecordStarts(w, p)) = MaxCalls
               /\ \A i \in RecordStarts(w, p) : w[i].rec = cur[p].rec

(***************************************************************************)
(* C9.  At most one write or sync executes against a byte sink at any time, *)
(* for the primary sink however it was attached and for the error sink.     *)
(***************************************************************************)
C9_OneWriterOrFlusherAtATime ==
    \A s \in {OutSink, ErrSink} : Cardinality(sinks[s].busy) <= 1

(***************************************************************************)
(* C11.  As claimed: a logging call in which a hook returns an error        *)
(* produces exactly one internal-error report tagged "hook" for the call,   *)
(* however many hooks are registered, and a call in which none fails        *)
(* produces none.                                                           *)
(***************************************************************************)
FailedHooks(tr) == {i \in EvIdx(tr, "hook") : tr[i].msg = "failed"}
HookReports(tr) == {i \in EvIdx(tr, "report") : tr[i].msg = "hook"}

\* The complete "hook" lines on the error sink.
HookLines(s) ==
    {i \in 1..Len(sinks[s].log) :
       /\ sinks[s].log[i].op = "write" /\ sinks[s].log[i].half = 2
       /\ sinks[s].log[i].rec.cause = "hook"}

C11_OneReportPerFailingCall ==
    \A p \in Called :
      LogDone(p) =>
        Cardinality(HookReports(trace[p])) =
          (IF FailedHooks(trace[p]) = {} THEN 0 ELSE 1)

(***************************************************************************)
(* C11, amended.  A logging call produces exactly one internal-error report *)
(* tagged "hook" for each hook run that returned an error, right after that *)
(* hook and followed at once by a sync of the error sink: one report when   *)
(* one hook fails, none when none fails; the lines are on the error sink.   *)
(***************************************************************************)
C11_OneReportPerFailedHook ==
    \A p \in Called :
      /\ \A j \in HookReports(trace[p]) : j > 1 /\ (j - 1) \in FailedHooks(trace[p])
      /\ \A j \in EvIdx(trace[p], "errsync") :
           j > 1 /\ trace[p][j - 1].ev = "report"
      /\ LogDone(p) =>
           /\ Cardinality(HookReports(trace[p])) = Cardinality(FailedHooks(trace[p]))
           /\ \A j \in HookReports(trace[p]) :
                j < Len(trace[p]) /\ trace[p][j + 1].ev = "errsync"
           /\ Cardinality(HookLines(LoggerOf(p).ErrorOutput)) =
                Cardinality(FailedHooks(trace[p]))

\* A delivered call both of whose hooks failed, each reported.
C11_Witness ==
    \E p \in Called :
      /\ LogDone(p) /\ Delivered(p)
      /\ Cardinality(FailedHooks(trace[p])) = 2
      /\ Cardinality(HookReports(trace[p])) = 2

(***************************************************************************)
(* C12.  The record handed to Facility delivery is the record as the hooks  *)
(* left it: its severity and message are those of the entry after the hooks *)
(* h1..hn were applied in order to the entry the call built, and the record *)
(* written carries them.                                                    *)
(***************************************************************************)
C12_DeliveredRecordIsHookedEntry ==
    \A p \in Called :
      \A j \in EvIdx(trace[p], "deliver") :
        /\ trace[p][j].n = cur[p].entry.Level
        /\ trace[p][j].msg = cur[p].entry.Message
        /\ cur[p].rec.Level = cur[p].entry.Level
        /\ cur[p].rec.Msg = cur[p].entry.Message

(***************************************************************************)
(* C13.  When the write of a record fails during delivery, the failure is   *)
(* reported once through Logger.InternalError (cause "encoder") and not     *)
(* propagated: the call returns normally, and every call on the same        *)
(* Logger, a later one included, is still delivered.                        *)
(***************************************************************************)
EncoderReports(tr) == {i \in EvIdx(tr, "report") : tr[i].msg = "encoder"}

C13_WriteFailureReportedNotPropagated ==
    \A p \in Called :
      /\ LogDone(p) =>
           /\ Delivered(p)
           /\ Cardinality(EncoderReports(trace[p])) = Count(trace[p], "writeFailed")
      /\ Finished(p) => pc[p] = "idle" /\ Last(trace[p]).ev = "return"

(***************************************************************************)
(* C14.  Check(severity, message) returns a token exactly when the gating   *)
(* rules let the record through: Panic and Fatal always, DPanic always in   *)
(* development mode, anything else when the threshold enables it and the    *)
(* Facility is eligible; nil otherwise.  The token carries the severity and *)
(* the message given and is bound to the Logger's own Facility.  The Check  *)
(* step runs no hook, delivers nothing, writes nothing, escalates nothing.  *)
(***************************************************************************)
C14_CheckReturnsTokenIffGatesPass ==
    [][\A q \in Procs :
         checked'[q] # checked[q] =>
           LET c == checked'[q]
               lg == loggers[c.log]
               through == \/ c.lvl \in {PanicLevel, FatalLevel}
                          \/ c.lvl = DPanicLevel /\ lg.Development
                          \/ /\ c.lvl >= lg.LevelEnabler
                             /\ FacilityEnabled(facs[lg.Facility])
           IN  /\ (c.ret # NoEntry) <=> through
               /\ through => /\ c.ret.Level = c.lvl /\ c.ret.Message = c.msg
                             /\ c.ret.fac = lg.Facility
               /\ UNCHANGED <<loggers, facs, arrays, sinks, pc, cur, todo, trace,
                              exited, derived>>]_vars

\* A Check of Panic below the threshold returned a token.
C14_Witness ==
    \E q \in Procs :
      /\ checked[q] # NoCheck
      /\ loggers[checked[q].log].LevelEnabler = FatalLevel
      /\ checked[q].lvl = PanicLevel /\ checked[q].ret # NoEntry

(***************************************************************************)
(* C15.  Derivation is race-free: a With step writes to no storage          *)
(* reachable from an existing Facility (its encoder, and the elements of    *)
(* its context slice), so that under any interleaving of With calls and     *)
(* logging every child has exactly its parent's context followed by its own *)
(* fields.                                                                  *)
(***************************************************************************)
ChildrenHaveOwnContext ==
    \A l \in 2..Len(loggers) :
      Context(facs[loggers[l].Facility], arrays) = ExpectedContext(l)

C15_WithWritesNoSharedStorage ==
    [][/\ \A k \in 1..Len(facs) :
            /\ facs'[k] = facs[k]
            /\ \A j \in 1..facs[k].ctx.len :
                 arrays'[facs[k].ctx.arr][j] = arrays[facs[k].ctx.arr][j]
       /\ ChildrenHaveOwnContext']_vars

(***************************************************************************)
(* C16.  A logging call that gating suppresses is a no-op: it runs no hook, *)
(* hands nothing to the Facility, writes and syncs nothing on the primary   *)
(* sink and writes nothing to the error sink.  Hooks run only for records   *)
(* that passed the threshold gate and the Facility gate.                    *)
(***************************************************************************)
LoggingEvents == {"hook", "report", "errsync", "deliver", "write", "writeFailed", "sync"}

C16_SuppressedCallIsNoOp ==
    \A p \in Called :
      /\ ~GatePasses(p) =>
           /\ \A j \in 1..Len(trace[p]) : trace[p][j].ev \notin LoggingEvents
           /\ cur[p].rec = NoRec
           /\ pc[p] \in {"Log", "tail", "idle", "panicked", "exited"}
           /\ Called = {p} =>
                \A s \in {OutSink, ErrSink} : sinks[s].log = <<>> /\ sinks[s].busy = {}
      /\ Count(trace[p], "hook") > 0 => GatePasses(p)

\* A call the threshold enables and the Facility refuses, on a Logger with
\* hooks, has returned.
C16_Witness ==
    \E p \in Called :
      /\ Finished(p) /\ LoggerOf(p).Hooks > 0
      /\ Enabled(LoggerOf(p).LevelEnabler, cur[p].lvl)
      /\ ~FacilityEnabled(FacilityOf(p))

(***************************************************************************)
(* C17.  ioFacility.Log syncs the sink exactly when the severity of the     *)
(* record it delivers exceeds Error (DPanic, Panic, Fatal), once, after the *)
(* write of that record has returned; it never syncs for a delivered Debug, *)
(* Info, Warn or Error record.                                              *)
(***************************************************************************)
DeliveredLevel(tr) == tr[CHOOSE j \in EvIdx(tr, "deliver") : TRUE].n

C17_SyncIffDeliveredAboveError ==
    \A p \in Called :
      IsIO(FacilityOf(p)) =>
        /\ \A j \in EvIdx(trace[p], "sync") :
             /\ Delivered(p) /\ DeliveredLevel(trace[p]) > ErrorLevel
             /\ \E i \in EvIdx(trace[p], "write") \cup EvIdx(trace[p], "writeFailed") : i < j
        /\ Count(trace[p], "sync") <= 1
        /\ (LogDone(p) /\ Delivered(p)) =>
             (Count(trace[p], "sync") = 1 <=> DeliveredLevel(trace[p]) > ErrorLevel)

\* A DPanic record delivered out of development mode: written, synced, and the
\* call returned.
C17_Witness ==
    \E p \in Called :
      /\ IsIO(FacilityOf(p)) /\ pc[p] = "idle" /\ Delivered(p)
      /\ DeliveredLevel(trace[p]) = DPanicLevel
      /\ Count(trace[p], "write") = 1 /\ Count(trace[p], "sync") = 1

(***************************************************************************)
(* C18.  Check and the logging calls agree on gating: on one Logger,        *)
(* Check(severity, msg) returns a token if and only if the severity's       *)
(* logging call delivers a record to the Facility.                          *)
(***************************************************************************)
C18_CheckAgreesWithLoggingCall ==
    \A p \in Called : \A q \in Procs :
      (/\ LogDone(p) /\ checked[q] # NoCheck
       /\ checked[q].log = cur[p].log /\ checked[q].lvl = cur[p].lvl) =>
        (checked[q].ret # NoEntry <=> Delivered(p))

(***************************************************************************)
(* C19.  Children derived from the same parent are independent: no later    *)
(* derivation and no logging call changes the context of a child already    *)
(* derived, and a record logged through a child carries its parent's        *)
(* context followed by the child's own fields (and then the call's).        *)
(***************************************************************************)
RecordsCarryOwnContext ==
    \A p \in Called :
      pc[p] \in {"write", "writing"} =>
        cur[p].rec.Fields = ExpectedContext(cur[p].log) \o cur[p].fields

C19_SiblingsKeepTheirContext ==
    [][/\ \A l \in 2..Len(loggers) :
            Context(facs[loggers[l].Facility], arrays)' =
              Context(facs[loggers[l].Facility], arrays)
       /\ RecordsCarryOwnContext']_vars

(***************************************************************************)
(* C20.  No logging call blocks forever: no caller holds the lock of one    *)
(* sink while it is inside, or holds, another, and every call that has      *)
(* begun eventually returns or escalates, with concurrent callers, failing  *)
(* hooks, and the error sink being the primary locked sink.                 *)
(***************************************************************************)
LocksHeld(p) == {s \in {OutSink, ErrSink} : sinks[s].holder = p \/ p \in sinks[s].busy}

C20_EveryCallEnds ==
    /\ [](\A p \in Procs : Cardinality(LocksHeld(p)) <= 1)
    /\ \A p \in Procs : (InCall(p) ~> Finished(p))

\* A caller reporting a failed hook waits for the lock of the one sink while
\* another caller is inside a write of a record to it.
C20_Witness ==
    \E p \in Called : \E q \in Called \ {p} :
      /\ pc[p] = "ieWrite" /\ LoggerOf(p).ErrorOutput = OutSink
      /\ pc[q] = "writing" /\ sinks[OutSink].holder = q

(***************************************************************************)
(* C21.  Gating and escalation follow the severity of the method the caller *)
(* invoked, not the severity a hook leaves in the entry: when a hook has    *)
(* changed the severity, the record is still delivered (no second gate), a  *)
(* Debug, Info, Warn or Error call still returns without panic or exit, a   *)
(* Panic call still panics and a Fatal call still exits, and on an          *)
(* ioFacility the sink is still synced once before that panic or exit.      *)
(***************************************************************************)
HookChangedLevel(p) == cur[p].entry.Level # cur[p].lvl

\* The hooks neither re-gate the record nor change how the call ends.
MethodDecidesGateAndEscalation(p) ==
    /\ LogDone(p) => Delivered(p)
    /\ Finished(p) =>
         /\ pc[p] = (CASE Escalation(cur[p].lvl, LoggerOf(p).Development) = "panic" -> "panicked"
                       [] Escalation(cur[p].lvl, LoggerOf(p).Development) = "exit" -> "exited"
                       [] OTHER -> "idle")
         /\ cur[p].lvl \in DebugLevel..ErrorLevel =>
              Count(trace[p], "panic") = 0 /\ Count(trace[p], "exit") = 0 /\ exited = 0
         /\ cur[p].lvl = PanicLevel => Count(trace[p], "panic") = 1
         /\ cur[p].lvl = FatalLevel => Count(trace[p], "exit") = 1 /\ exited = ExitStatus

\* The sync that precedes the panic of a Panic call and the exit of a Fatal call.
MethodKeepsFlush(p) ==
    (cur[p].lvl \in {PanicLevel, FatalLevel} /\ Finished(p) /\ IsIO(FacilityOf(p))) =>
      /\ Count(trace[p], "sync") = 1
      /\ Before(trace[p], "sync", "panic")
      /\ Before(trace[p], "sync", "exit")

C21_MethodSeverityDecides ==
    \A p \in Called :
      HookChangedLevel(p) =>
        /\ MethodDecidesGateAndEscalation(p)
        /\ MethodKeepsFlush(p)

====
